---- MODULE Spec2Model ----
(***************************************************************************)
(* A model of celonis_data_push.py: main() resolves the configuration,     *)
(* connects, and drives push_to_celonis() over one file or over the        *)
(* supported files of a directory; push_to_celonis() reads the file,       *)
(* provisions the job / transformation, and uploads the rows in chunks     *)
(* with an append-then-create fallback.                                    *)
(*                                                                         *)
(* Every call into the platform client (pycelonis) or into pandas is one   *)
(* step whose outcome (returns / raises) is chosen nondeterministically.   *)
(* A DataFrame is modelled by its row count and its dtypes; a slice        *)
(* df.iloc[lo:hi] by the row range [lo, hi).                               *)
(***************************************************************************)
EXTENDS Integers, Sequences, FiniteSets, TLC

(***************************************************************************)
(* Bounds of the model and constants of the program.                       *)
(***************************************************************************)
\* the largest number of chunks a modelled file splits into
MaxChunks == 3
\* the largest number of entries of a modelled directory listing
MaxFiles == 2
\* CHUNK_SIZE of push_to_celonis
CHUNK_SIZE == 100000

NONE == "<None>"

Min(a, b) == IF a <= b THEN a ELSE b

Range(s) == {s[k] : k \in 1..Len(s)}

(***************************************************************************)
(* Configuration: main(), lines 187-202.                                   *)
(***************************************************************************)
Params == <<"path", "api_key", "instance_id", "pool_id">>

\* what argparse yields for an option: None when absent, else its text
ArgValues == {NONE, "", "cli"}
\* what os.getenv yields: None when unset, else its text
EnvValues == {NONE, "", "env"}

\* Python truthiness of an optional string
Truthy(v) == v # NONE /\ v # ""

\* Python's  a or b
PyOr(a, b) == IF Truthy(a) THEN a ELSE b

ResolveConfig(a, e) == [p \in Range(Params) |-> PyOr(a[p], e[p])]

MissingFirstOnly(r) ==
    LET all == SelectSeq(Params, LAMBDA p : ~Truthy(r[p]))
    IN  IF all = <<>> THEN <<>> ELSE <<all[1]>>

MissingParams(r) == SelectSeq(Params, LAMBDA p : ~Truthy(r[p]))

\* complete configurations are explored for this profile of sources (path
\* given twice, the rest from the environment under an empty or absent
\* option); incomplete ones are explored exhaustively
CompleteProfiles ==
    { <<[p \in Range(Params) |->
            IF p = "path" THEN "cli" ELSE IF p = "api_key" THEN "" ELSE NONE],
        [p \in Range(Params) |-> "env"]>> }

(***************************************************************************)
(* Files.  A path is modelled already split by os.path.splitext into its   *)
(* stem and its extension.                                                 *)
(***************************************************************************)
\* the entries of the modelled directory, in the order os.listdir gives them
Directory ==
    << [stem |-> "a", ext |-> ".csv"],
       [stem |-> "notes", ext |-> ".txt"],
       [stem |-> "a", ext |-> ".XLSX"],
       [stem |-> "b", ext |-> ".parquet"] >>

FileNames == Range(Directory)

Lower(ext) == IF ext = ".XLSX" THEN ".xlsx" ELSE ext

get_file_extension(f) == Lower(f.ext)

SupportedExtensions == {".csv", ".parquet", ".xls", ".xlsx"}

\* every subsequence of s of at most n elements
RECURSIVE SubSeqs(_, _)
SubSeqs(s, n) ==
    IF s = <<>> \/ n = 0 THEN {<<>>}
    ELSE SubSeqs(Tail(s), n) \cup {<<Head(s)>> \o t : t \in SubSeqs(Tail(s), n - 1)}

\* what os.listdir can return for the target directory: at most MaxFiles of
\* the entries
Listings == SubSeqs(Directory, MaxFiles)

(***************************************************************************)
(* DataFrames: a row count and the dtypes (column label, dtype).  A label  *)
(* is a text (a sequence of characters) or, as Excel headers can be, a     *)
(* number.                                                                 *)
(***************************************************************************)
Text(chars) == [isstr |-> TRUE, chars |-> chars]
Number == [isstr |-> FALSE, chars |-> <<>>]

SchemaA ==
    << [col |-> Text(<<"i", "d">>), dtype |-> "int64"],
       [col |-> Text(<<"a", "m", "t">>), dtype |-> "float64"],
       [col |-> Text(<<"t", "s">>), dtype |-> "datetime64[ns]"] >>
SchemaB ==
    << [col |-> Text(<<"a", " ", "b">>), dtype |-> "object"] >>
SchemaC ==
    << [col |-> Number, dtype |-> "float64"] >>

Schemas == {SchemaA, SchemaB, SchemaC}

\* row counts: none, one, a chunk and one row, 250,000, and every whole
\* number of chunks up to MaxChunks
RowCounts ==
    {0, 1, CHUNK_SIZE + 1, 2 * CHUNK_SIZE + CHUNK_SIZE \div 2}
        \cup {k * CHUNK_SIZE : k \in 1..MaxChunks}

\* what a reader can return: every row count under SchemaA, and the other
\* dtypes with one row
DataFrames ==
    [rows : RowCounts, dtypes : {SchemaA}] \cup [rows : {1}, dtypes : Schemas]

NoDf == [rows |-> -1, dtypes |-> <<>>]

(***************************************************************************)
(* Step 2 of push_to_celonis: the CREATE TABLE statement, lines 72-87.     *)
(***************************************************************************)
get_sql_type(dtype) ==
    IF dtype = "int64" THEN "INT"
    ELSE IF dtype = "float64" THEN "FLOAT"
    ELSE IF dtype = "datetime64[ns]" THEN "TIMESTAMP"
    ELSE "VARCHAR(2000)"

\* col.replace(" ", "_")
Sanitize(chars) == [k \in 1..Len(chars) |-> IF chars[k] = " " THEN "_" ELSE chars[k]]

\* col.replace raises AttributeError when a label is not a str
SqlRaises(frame) == \E k \in 1..Len(frame.dtypes) : ~frame.dtypes[k].col.isstr

ColumnsSql(frame) ==
    [k \in 1..Len(frame.dtypes) |->
        [quoted |-> Sanitize(frame.dtypes[k].col.chars),
         type |-> get_sql_type(frame.dtypes[k].dtype)]]

CreateTableSql(table_name, frame) ==
    [head |-> "CREATE TABLE IF NOT EXISTS", table |-> table_name, columns |-> ColumnsSql(frame)]

NoSql == [head |-> NONE, table |-> NONE, columns |-> <<>>]

\* a statement left in the transformation by an earlier, unrelated run
StaleSql == [head |-> "CREATE TABLE IF NOT EXISTS", table |-> "old", columns |-> <<>>]

JOB_NAME == "TEST_DATA_JOB"
TRANS_NAME == "TEST_TRANSFORMATION"

NoTransformation == [name |-> NONE, statement |-> NoSql]

\* next((t for t in transformations if t.name == trans_name), None)
FindTransformation(ts) ==
    LET hits == SelectSeq(ts, LAMBDA t : t.name = TRANS_NAME)
    IN  IF hits = <<>> THEN NoTransformation ELSE hits[1]

\* the job's transformations after transformation.delete() of the first
\* one named TRANS_NAME
RemoveFirst(ts) ==
    LET k == CHOOSE j \in 1..Len(ts) :
                 /\ ts[j].name = TRANS_NAME
                 /\ \A h \in 1..(j - 1) : ts[h].name # TRANS_NAME
    IN  SubSeq(ts, 1, k - 1) \o SubSeq(ts, k + 1, Len(ts))

(***************************************************************************)
(* Step 4 of push_to_celonis: chunking, lines 116-146.                     *)
(***************************************************************************)
NumChunks(total) == (total + CHUNK_SIZE - 1) \div CHUNK_SIZE

ChunkStart(i) == i * CHUNK_SIZE

\* an end index that is not clipped to the row count
ChunkEndUnclipped(i, total) == (i + 1) * CHUNK_SIZE

\* end_idx of line 145
ChunkEnd(i, total) == Min((i + 1) * CHUNK_SIZE, total)

(***************************************************************************)
(* The state.                                                              *)
(***************************************************************************)
VARIABLES
    \* inputs of main(): the parsed command line and the environment
    args, environ,
    \* main(): its position, its locals and what it logged
    mainPc, missing_params, connects, target, files, fi, fileDelays, mainLog,
    \* the files push_to_celonis was called with, and how each call ended
    processed, outcomes,
    \* the running push_to_celonis call: its position and its locals
    pc, file, df, create_table_sql, found, provFailed,
    \* (attempts: the append attempts, i.e. the try bodies get_table + append,
    \* and the create_table fallbacks, in order; uploaded: the row ranges of
    \* the uploads that returned)
    ci, num_chunks, chunks, attempts, uploaded, chunkDelays,
    \* what the running call logged, and whether it called the platform
    fileLog, touched,
    \* the data pool: whether the job exists, and the job's transformations
    jobExists, transformations

configVars == <<args, environ>>
mainVars == <<mainPc, missing_params, connects, target, files, fi, fileDelays,
              mainLog, processed, outcomes>>
provVars == <<df, create_table_sql, found, provFailed>>
chunkVars == <<ci, num_chunks, chunks, attempts, uploaded, chunkDelays>>
poolVars == <<jobExists, transformations>>
vars == <<configVars, mainVars, pc, file, provVars, chunkVars, fileLog,
          touched, poolVars>>

OtherTransformation == [name |-> "OTHER", statement |-> StaleSql]
StaleTransformation == [name |-> TRANS_NAME, statement |-> StaleSql]

\* the job's transformations before the run (none when there is no job)
InitialTransformations ==
    { <<>>, <<StaleTransformation>>, <<OtherTransformation, StaleTransformation>> }

NoFile == [stem |-> NONE, ext |-> NONE]

\* the locals of a push_to_celonis call before its first statement
FreshCall ==
    /\ df' = NoDf
    /\ create_table_sql' = NoSql
    /\ found' = NoTransformation
    /\ provFailed' = NONE
    /\ ci' = 0
    /\ num_chunks' = 0
    /\ chunks' = <<>>
    /\ attempts' = <<>>
    /\ uploaded' = <<>>
    /\ chunkDelays' = 0
    /\ fileLog' = <<>>
    /\ touched' = FALSE

Init ==
    /\ args \in [Range(Params) -> ArgValues]
    /\ environ \in [Range(Params) -> EnvValues]
    /\ \/ MissingParams(ResolveConfig(args, environ)) # <<>>
       \/ <<args, environ>> \in CompleteProfiles
    /\ mainPc = "validate"
    /\ missing_params = <<>>
    /\ connects = 0
    /\ target = NONE
    /\ files = <<>>
    /\ fi = 0
    /\ fileDelays = 0
    /\ mainLog = <<>>
    /\ processed = <<>>
    /\ outcomes = <<>>
    /\ pc = "idle"
    /\ file = NoFile
    /\ df = NoDf
    /\ create_table_sql = NoSql
    /\ found = NoTransformation
    /\ provFailed = NONE
    /\ ci = 0
    /\ num_chunks = 0
    /\ chunks = <<>>
    /\ attempts = <<>>
    /\ uploaded = <<>>
    /\ chunkDelays = 0
    /\ fileLog = <<>>
    /\ touched = FALSE
    /\ jobExists \in BOOLEAN
    /\ transformations \in (IF jobExists THEN InitialTransformations ELSE {<<>>})

(***************************************************************************)
(* main(), lines 176-239.                                                  *)
(***************************************************************************)
MainLogged(kind, params) == mainLog' = Append(mainLog, [kind |-> kind, params |-> params])

\* lines 187-202: resolve, validate, report every missing value at once
ValidateConfig ==
    /\ mainPc = "validate"
    /\ missing_params' = MissingParams(ResolveConfig(args, environ))
    /\ IF missing_params' # <<>>
       THEN /\ MainLogged("Missing required configuration", missing_params')
            /\ mainPc' = "done"
       ELSE /\ mainPc' = "connect"
            /\ UNCHANGED mainLog
    /\ UNCHANGED <<configVars, connects, target, files, fi, fileDelays,
                   processed, outcomes, pc, file, provVars, chunkVars,
                   fileLog, touched, poolVars>>

\* lines 209-214: get_celonis returns a handle or raises
Connect ==
    /\ mainPc = "connect"
    /\ connects' = connects + 1
    /\ \E ok \in BOOLEAN :
        IF ok
        THEN mainPc' = "dispatch" /\ UNCHANGED mainLog
        ELSE mainPc' = "done" /\ MainLogged("Failed to connect to Celonis", <<>>)
    /\ UNCHANGED <<configVars, missing_params, target, files, fi, fileDelays,
                   processed, outcomes, pc, file, provVars, chunkVars,
                   fileLog, touched, poolVars>>

\* more files after the one at index i of n (line 235)
MoreFilesAlways(i, n) == i < n

MoreFiles(i, n) == i < n - 1

\* lines 216-228, 238-239: the target is a file, a directory or neither
Dispatch ==
    /\ mainPc = "dispatch"
    /\ \/ \E f \in FileNames :
            /\ target' = "file"
            /\ files' = <<f>>
            /\ mainPc' = "call"
            /\ UNCHANGED mainLog
       \/ \E listing \in Listings :
            /\ target' = "dir"
            /\ files' = SelectSeq(listing,
                          LAMBDA f : get_file_extension(f) \in SupportedExtensions)
            /\ IF files' = <<>>
               THEN mainPc' = "done"
                    /\ MainLogged("No supported files found in directory.", <<>>)
               ELSE mainPc' = "call" /\ UNCHANGED mainLog
       \/ /\ target' = "other"
          /\ files' = <<>>
          /\ mainPc' = "done"
          /\ MainLogged("Invalid path", <<>>)
    /\ UNCHANGED <<configVars, missing_params, connects, fi, fileDelays,
                   processed, outcomes, pc, file, provVars, chunkVars,
                   fileLog, touched, poolVars>>

\* lines 219, 230-232: call push_to_celonis with the file at index fi
CallPush ==
    /\ mainPc = "call"
    /\ mainPc' = "push"
    /\ file' = files[fi + 1]
    /\ processed' = Append(processed, files[fi + 1])
    /\ pc' = "read"
    /\ FreshCall
    /\ UNCHANGED <<configVars, missing_params, connects, target, files, fi,
                   fileDelays, mainLog, outcomes, poolVars>>

\* how a finished push_to_celonis call ended
Outcome ==
    IF \E k \in 1..Len(fileLog) : fileLog[k].kind = "SUCCESS" THEN "success"
    ELSE IF df = NoDf THEN "skipped"
    ELSE IF \E k \in 1..Len(attempts) :
                attempts[k].op = "create_table" /\ ~attempts[k].ok THEN "abandoned"
    ELSE "failed"

\* lines 219, 232-237: push_to_celonis returned; sleep if files remain
AfterPush ==
    /\ mainPc = "push"
    /\ pc = "returned"
    /\ pc' = "idle"
    /\ outcomes' = Append(outcomes, Outcome)
    /\ IF target = "dir" /\ MoreFiles(fi, Len(files))
       THEN mainPc' = "file_sleep"
       ELSE mainPc' = "done"
    /\ UNCHANGED <<configVars, missing_params, connects, target, files, fi,
                   fileDelays, mainLog, processed, file, provVars, chunkVars,
                   fileLog, touched, poolVars>>

\* line 237: time.sleep(10), then the next iteration
FileSleep ==
    /\ mainPc = "file_sleep"
    /\ fileDelays' = fileDelays + 1
    /\ fi' = fi + 1
    /\ mainPc' = "call"
    /\ UNCHANGED <<configVars, missing_params, connects, target, files,
                   mainLog, processed, outcomes, pc, file, provVars, chunkVars,
                   fileLog, touched, poolVars>>

(***************************************************************************)
(* push_to_celonis(), lines 45-174.                                        *)
(***************************************************************************)
LogEntry(kind, records, inserted, nchunks) ==
    [kind |-> kind, records |-> records, inserted |-> inserted, chunks |-> nchunks]

ErrorEntry(kind) == LogEntry(kind, -1, -1, -1)

\* the except clause of lines 173-174: log, and return
OuterExcept ==
    /\ fileLog' = Append(fileLog, ErrorEntry("Failed to push"))
    /\ pc' = "returned"

\* the except clause of lines 111-114: log, and go on to the ingestion
InnerExcept(step) ==
    /\ fileLog' = Append(fileLog, ErrorEntry("Failed to handle transformation"))
    /\ provFailed' = step
    /\ pc' = "ingest"

\* where push_to_celonis goes when read_file returned None (lines 53-54)
AfterReadFailureFallThrough == "get_pool"

AfterReadFailure == "returned"

\* lines 27-43, 52-57: read_file, and the return when it yields None
ReadFile ==
    /\ mainPc = "push"
    /\ pc = "read"
    /\ \E result \in DataFrames \cup {NoDf} :
        /\ get_file_extension(file) \notin SupportedExtensions => result = NoDf
        /\ df' = result
        /\ IF result = NoDf
           THEN /\ fileLog' = Append(fileLog,
                        ErrorEntry(IF get_file_extension(file) \in SupportedExtensions
                                   THEN "Failed to read file"
                                   ELSE "Unsupported file format"))
                /\ pc' = AfterReadFailure
           ELSE /\ pc' = "get_pool"
                /\ UNCHANGED fileLog
    /\ UNCHANGED <<configVars, mainVars, file, create_table_sql, found,
                   provFailed, chunkVars, touched, poolVars>>

\* line 61: get_data_pool
GetDataPool ==
    /\ mainPc = "push"
    /\ pc = "get_pool"
    /\ touched' = TRUE
    /\ \E ok \in BOOLEAN :
        IF ok THEN pc' = "find_job" /\ UNCHANGED fileLog ELSE OuterExcept
    /\ UNCHANGED <<configVars, mainVars, file, provVars, chunkVars, poolVars>>

\* lines 65-69: get_jobs().find raises when there is no such job, or on
\* any fault of the call
FindJob ==
    /\ mainPc = "push"
    /\ pc = "find_job"
    /\ \E ok \in BOOLEAN :
        /\ ok => jobExists
        /\ pc' = IF ok THEN "build_sql" ELSE "create_job"
    /\ UNCHANGED <<configVars, mainVars, file, provVars, chunkVars, fileLog,
                   touched, poolVars>>

\* line 70, inside the handler of the lookup: create_job; what it raises
\* reaches the except clause of line 173.  A job just created holds no
\* transformation.
CreateJob ==
    /\ mainPc = "push"
    /\ pc = "create_job"
    /\ \E ok \in BOOLEAN :
        IF ok
        THEN /\ jobExists' = TRUE
             /\ transformations' = <<>>
             /\ pc' = "build_sql"
             /\ UNCHANGED <<fileLog, provFailed>>
        ELSE /\ provFailed' = "create_job"
             /\ OuterExcept
             /\ UNCHANGED poolVars
    /\ UNCHANGED <<configVars, mainVars, file, df, create_table_sql, found,
                   chunkVars, touched>>

\* lines 72-87: the statement; col.replace raises on a label that is no
\* str, and that reaches the except clause of line 173
BuildSql ==
    /\ mainPc = "push"
    /\ pc = "build_sql"
    /\ IF SqlRaises(df)
       THEN /\ provFailed' = "build_sql"
            /\ OuterExcept
            /\ UNCHANGED create_table_sql
       ELSE /\ create_table_sql' = CreateTableSql(file.stem, df)
            /\ pc' = "get_transformations"
            /\ UNCHANGED <<fileLog, provFailed>>
    /\ UNCHANGED <<configVars, mainVars, file, df, found, chunkVars, touched,
                   poolVars>>

\* lines 93-96, 100-101: look the transformation up by name
GetTransformations ==
    /\ mainPc = "push"
    /\ pc = "get_transformations"
    /\ \E ok \in BOOLEAN :
        IF ok
        THEN /\ found' = FindTransformation(transformations)
             /\ pc' = IF found' # NoTransformation
                      THEN "delete" ELSE "create_transformation"
             /\ UNCHANGED <<fileLog, provFailed>>
        ELSE /\ InnerExcept("get_transformations")
             /\ UNCHANGED found
    /\ UNCHANGED <<configVars, mainVars, file, df, create_table_sql,
                   chunkVars, touched, poolVars>>

\* the job's transformations after a delete() that is skipped
TransformationsKept(ts) == ts

\* the job's transformations after transformation.delete() (line 98)
TransformationsAfterDelete(ts) == RemoveFirst(ts)

\* line 98: transformation.delete()
DeleteTransformation ==
    /\ mainPc = "push"
    /\ pc = "delete"
    /\ \E ok \in BOOLEAN :
        IF ok
        THEN /\ transformations' = TransformationsAfterDelete(transformations)
             /\ pc' = "create_transformation"
             /\ UNCHANGED <<fileLog, provFailed>>
        ELSE /\ InnerExcept("delete")
             /\ UNCHANGED transformations
    /\ UNCHANGED <<configVars, mainVars, file, df, create_table_sql, found,
                   chunkVars, touched, jobExists>>

\* lines 99, 102: create_transformation(trans_name, statement=create_table_sql)
CreateTransformation ==
    /\ mainPc = "push"
    /\ pc = "create_transformation"
    /\ \E ok \in BOOLEAN :
        IF ok
        THEN /\ transformations' = Append(transformations,
                    [name |-> TRANS_NAME, statement |-> create_table_sql])
             /\ pc' = "execute"
             /\ UNCHANGED <<fileLog, provFailed>>
        ELSE /\ InnerExcept("create_transformation")
             /\ UNCHANGED transformations
    /\ UNCHANGED <<configVars, mainVars, file, df, create_table_sql, found,
                   chunkVars, touched, jobExists>>

\* lines 108-109: data_job.execute(), then time.sleep(10)
Execute ==
    /\ mainPc = "push"
    /\ pc = "execute"
    /\ \E ok \in BOOLEAN :
        IF ok
        THEN pc' = "ingest" /\ UNCHANGED <<fileLog, provFailed>>
        ELSE InnerExcept("execute")
    /\ UNCHANGED <<configVars, mainVars, file, df, create_table_sql, found,
                   chunkVars, touched, poolVars>>

(***************************************************************************)
(* Step 4 of push_to_celonis: the ingestion, lines 116-171.                *)
(***************************************************************************)
\* the branch of line 120
IsSmall(total) == total <= CHUNK_SIZE

\* the rows of the upload in hand: df on the small branch, chunk_df in the loop
CurrentChunk == chunks[Len(chunks)]

AttemptEntry(op, rows, ok) == [op |-> op, rows |-> rows, ok |-> ok]

\* lines 117-120, 140-141: choose the branch; the small branch uploads df whole
Ingest ==
    /\ mainPc = "push"
    /\ pc = "ingest"
    /\ IF IsSmall(df.rows)
       THEN /\ chunks' = <<[lo |-> 0, hi |-> df.rows]>>
            /\ pc' = "get_table"
            /\ UNCHANGED <<ci, num_chunks>>
       ELSE /\ num_chunks' = NumChunks(df.rows)
            /\ ci' = 0
            /\ pc' = "slice"
            /\ UNCHANGED chunks
    /\ UNCHANGED <<configVars, mainVars, file, provVars, attempts, uploaded,
                   chunkDelays, fileLog, touched, poolVars>>

\* lines 143-148: chunk_df = df.iloc[start_idx:end_idx]
SliceChunk ==
    /\ mainPc = "push"
    /\ pc = "slice"
    /\ chunks' = Append(chunks, [lo |-> ChunkStart(ci), hi |-> ChunkEnd(ci, df.rows)])
    /\ pc' = "get_table"
    /\ UNCHANGED <<configVars, mainVars, file, provVars, ci, num_chunks,
                   attempts, uploaded, chunkDelays, fileLog, touched, poolVars>>

\* lines 123, 152: get_table opens the append attempt; when it raises the
\* attempt has failed and the except clause is entered
GetTable ==
    /\ mainPc = "push"
    /\ pc = "get_table"
    /\ \E ok \in BOOLEAN :
        IF ok
        THEN pc' = "append" /\ UNCHANGED attempts
        ELSE /\ attempts' = Append(attempts, AttemptEntry("append", CurrentChunk, FALSE))
             /\ pc' = "create_table"
    /\ UNCHANGED <<configVars, mainVars, file, provVars, ci, num_chunks,
                   chunks, uploaded, chunkDelays, fileLog, touched, poolVars>>

\* whether the loop sleeps after the chunk at index i of n (line 162)
SleepsAfterEveryChunk(i, n) == i < n

SleepsAfterChunk(i, n) == i < n - 1

\* lines 131, 159-164: after an upload, the small branch logs its summary;
\* the loop sleeps and goes on, or ends
AfterUpload ==
    IF IsSmall(df.rows) THEN "success"
    ELSE IF SleepsAfterChunk(ci, num_chunks) THEN "chunk_sleep"
    ELSE "success"

\* where a failed create_table would go on if its exception were swallowed
CreateFailureSwallowed ==
    /\ pc' = AfterUpload
    /\ UNCHANGED fileLog

\* a create_table that raises is not handled in the loop: lines 173-174
CreateFailure == OuterExcept

\* lines 125, 153: table.append; a failure enters the except clause
AppendRows ==
    /\ mainPc = "push"
    /\ pc = "append"
    /\ \E ok \in BOOLEAN :
        /\ attempts' = Append(attempts, AttemptEntry("append", CurrentChunk, ok))
        /\ IF ok
           THEN /\ uploaded' = Append(uploaded, CurrentChunk)
                /\ pc' = AfterUpload
           ELSE /\ pc' = "create_table"
                /\ UNCHANGED uploaded
    /\ UNCHANGED <<configVars, mainVars, file, provVars, ci, num_chunks,
                   chunks, chunkDelays, fileLog, touched, poolVars>>

\* the rows a fallback that passed the whole frame would create the table with
CreateRowsWholeFrame == [lo |-> 0, hi |-> df.rows]

\* the rows create_table is called with: df (line 129) or chunk_df (line 157)
CreateRows == CurrentChunk

\* lines 126-129, 154-157: the fallback, create_table
CreateTable ==
    /\ mainPc = "push"
    /\ pc = "create_table"
    /\ \E ok \in BOOLEAN :
        /\ attempts' = Append(attempts, AttemptEntry("create_table", CreateRows, ok))
        /\ IF ok
           THEN /\ uploaded' = Append(uploaded, CreateRows)
                /\ pc' = AfterUpload
                /\ UNCHANGED fileLog
           ELSE /\ CreateFailure
                /\ UNCHANGED uploaded
    /\ UNCHANGED <<configVars, mainVars, file, provVars, ci, num_chunks,
                   chunks, chunkDelays, touched, poolVars>>

\* line 164: time.sleep(10), then the next iteration
ChunkSleep ==
    /\ mainPc = "push"
    /\ pc = "chunk_sleep"
    /\ chunkDelays' = chunkDelays + 1
    /\ ci' = ci + 1
    /\ pc' = "slice"
    /\ UNCHANGED <<configVars, mainVars, file, provVars, num_chunks, chunks,
                   attempts, uploaded, fileLog, touched, poolVars>>

\* a summary that reported the rows of the last upload only
SuccessEntryLastChunk(total, n) ==
    LogEntry("SUCCESS", total, CurrentChunk.hi - CurrentChunk.lo, n)

\* lines 131-135, 166-170: Records and Inserted are both total_records
SuccessEntry(total, n) == LogEntry("SUCCESS", total, total, n)

\* lines 136, 171: log the summary; the call returns
LogSuccess ==
    /\ mainPc = "push"
    /\ pc = "success"
    /\ fileLog' = Append(fileLog, SuccessEntry(df.rows, num_chunks))
    /\ pc' = "returned"
    /\ UNCHANGED <<configVars, mainVars, file, provVars, chunkVars, touched,
                   poolVars>>

Next ==
    \/ ValidateConfig
    \/ Connect
    \/ Dispatch
    \/ CallPush
    \/ AfterPush
    \/ FileSleep
    \/ ReadFile
    \/ GetDataPool
    \/ FindJob
    \/ CreateJob
    \/ BuildSql
    \/ GetTransformations
    \/ DeleteTransformation
    \/ CreateTransformation
    \/ Execute
    \/ Ingest
    \/ SliceChunk
    \/ GetTable
    \/ AppendRows
    \/ CreateTable
    \/ ChunkSleep
    \/ LogSuccess

Spec == Init /\ [][Next]_vars

(***************************************************************************)
(* Vocabulary of the properties.                                           *)
(***************************************************************************)
CeilDiv(n, c) == IF n % c = 0 THEN n \div c ELSE n \div c + 1

Size(r) == r.hi - r.lo

RECURSIVE SumSizes(_)
SumSizes(rs) == IF rs = <<>> THEN 0 ELSE Size(Head(rs)) + SumSizes(Tail(rs))

\* a push_to_celonis call has read its file
HasFrame == df # NoDf

Successes == SelectSeq(fileLog, LAMBDA e : e.kind = "SUCCESS")

\* the loop (or the small branch) is through: every upload returned
Completed == pc = "success" \/ (pc \in {"returned", "idle"} /\ Successes # <<>>)

AppendAttempts == SelectSeq(attempts, LAMBDA a : a.op = "append")

\* the rows of the attempts that returned, in order
RowsOf(as) == [k \in 1..Len(as) |-> as[k].rows]
Returned == RowsOf(SelectSeq(attempts, LAMBDA a : a.ok))

\* the positions of the ingestion
Ingesting == {"slice", "get_table", "append", "create_table", "chunk_sleep", "success"}

\* properties of the chunks produced so far that do not depend on their number
ChunksShape(expected) ==
    /\ Len(chunks) <= expected
    /\ \A k \in 1..Len(chunks) :
        /\ chunks[k].lo = (IF k = 1 THEN 0 ELSE chunks[k - 1].hi)
        /\ chunks[k].lo <= chunks[k].hi
        /\ chunks[k].hi <= df.rows
        /\ k < expected => Size(chunks[k]) = CHUNK_SIZE
        /\ Size(chunks[k]) <= CHUNK_SIZE
    /\ (df.rows <= CHUNK_SIZE /\ chunks # <<>>) => chunks = <<[lo |-> 0, hi |-> df.rows]>>
    /\ Completed => /\ Len(chunks) = expected
                    /\ SumSizes(chunks) = df.rows

\* C1 as stated: the upload step produces ceil(N/C) chunks for every N >= 0,
\* N = 0 included, each but the last of C rows, contiguous from row 0 in row
\* order, summing to N, and one chunk, the whole table, when N <= C.
C1_CeilChunks == HasFrame => ChunksShape(CeilDiv(df.rows, CHUNK_SIZE))

\* C1 as amended: the upload step produces ceil(N/C) chunks when N >= 1 and
\* one empty chunk (the whole, empty table) when N = 0; every chunk but the
\* last has C rows, the chunks are contiguous from row 0 in row order and sum
\* to N, and when N <= C the one chunk is the whole table.
C1_Chunks ==
    HasFrame => ChunksShape(IF df.rows = 0 THEN 1 ELSE CeilDiv(df.rows, CHUNK_SIZE))

\* 250,000 rows went up as chunks of 100,000, 100,000 and 50,000 rows
C1_Witness ==
    /\ Completed
    /\ df.rows = 2 * CHUNK_SIZE + CHUNK_SIZE \div 2
    /\ RowsOf(AppendAttempts) = chunks
    /\ Len(chunks) = 3
    /\ Size(chunks[3]) = CHUNK_SIZE \div 2

\* C2: per chunk, in row order, one append attempt comes first; create_table
\* is called exactly when that attempt failed, with that chunk's rows; after a
\* create_table that returned the next chunk starts again with an append, and
\* every upload that returned stays uploaded.
C2_AppendThenCreate ==
    HasFrame =>
    /\ \A k \in 1..Len(attempts) :
        /\ attempts[k].op \in {"append", "create_table"}
        /\ (attempts[k].op = "append" /\ ~attempts[k].ok) =>
              IF k = Len(attempts) THEN pc = "create_table"
              ELSE /\ attempts[k + 1].op = "create_table"
                   /\ attempts[k + 1].rows = attempts[k].rows
        /\ attempts[k].op = "create_table" =>
              /\ k > 1
              /\ attempts[k - 1].op = "append"
              /\ ~attempts[k - 1].ok
              /\ attempts[k - 1].rows = attempts[k].rows
        /\ (attempts[k].ok /\ attempts[k].rows.hi < df.rows) =>
              IF k = Len(attempts) THEN pc \in Ingesting \ {"success", "create_table"}
              ELSE /\ attempts[k + 1].op = "append"
                   /\ attempts[k + 1].rows.lo = attempts[k].rows.hi
    /\ \A j \in 1..Len(AppendAttempts) :
        /\ j <= Len(chunks)
        /\ AppendAttempts[j].rows = chunks[j]
    /\ Len(AppendAttempts) >= Len(chunks) - 1
    /\ pc \in {"create_table", "chunk_sleep", "success", "returned", "idle"} =>
          Len(AppendAttempts) = Len(chunks)
    /\ uploaded = Returned

\* the first chunk went up by the fallback and the second by an append
C2_Witness ==
    /\ Len(attempts) >= 3
    /\ attempts[1] = AttemptEntry("append", [lo |-> 0, hi |-> CHUNK_SIZE], FALSE)
    /\ attempts[2] = AttemptEntry("create_table", [lo |-> 0, hi |-> CHUNK_SIZE], TRUE)
    /\ attempts[3].op = "append"
    /\ attempts[3].ok
    /\ attempts[3].rows.lo = CHUNK_SIZE
    /\ uploaded = <<attempts[2].rows, attempts[3].rows>>

\* the files of a directory are all handed to push_to_celonis before main ends
BatchRunsThrough ==
    (mainPc = "done" /\ target = "dir" /\ files # <<>>) =>
        /\ processed = files
        /\ Len(outcomes) = Len(files)

\* C3: when a chunk's append attempt and its create_table both fail, nothing
\* more is attempted for the file (no further chunk, no retry), what was
\* uploaded stays, the failure is logged, no SUCCESS line is, the call
\* returns, and a directory batch still goes through all its files.
C3_BothFailAbandonsFile ==
    /\ \A k \in 1..Len(attempts) :
        (attempts[k].op = "create_table" /\ ~attempts[k].ok) =>
            /\ k = Len(attempts)
            /\ pc \in {"returned", "idle"}
            /\ Successes = <<>>
            /\ fileLog[Len(fileLog)] = ErrorEntry("Failed to push")
            /\ uploaded = Returned
            /\ Len(uploaded) = Len(chunks) - 1
            /\ Len(AppendAttempts) = Len(chunks)
    /\ BatchRunsThrough

\* in a directory, the first file was abandoned, the second was still
\* processed and was abandoned in its turn with its first chunk uploaded
C3_Witness ==
    /\ target = "dir"
    /\ mainPc = "done"
    /\ outcomes = <<"abandoned", "abandoned">>
    /\ Len(uploaded) = 1
    /\ Len(chunks) = 2
    /\ ~attempts[Len(attempts)].ok

\* C4: whichever provisioning step failed (create_job after a failed lookup,
\* the statement, get_transformations, delete, create_transformation,
\* execute), the failure is swallowed and the ingestion is attempted.
C4_IngestionAfterAnyProvisioningFailure ==
    (provFailed # NONE /\ pc \in {"returned", "idle"}) => attempts # <<>>

\* the number of chunks of the file in hand
ExpectedChunks == IF df.rows = 0 THEN 1 ELSE CeilDiv(df.rows, CHUNK_SIZE)

\* every chunk of the file in hand has been uploaded
AllUploaded ==
    /\ HasFrame
    /\ Len(uploaded) = ExpectedChunks
    /\ SumSizes(uploaded) = df.rows

\* C5: a call logs at most one SUCCESS line; only with every chunk uploaded,
\* each by its append or by its fallback; exactly one once it has returned
\* with all chunks uploaded; and Records and Inserted are the file's row
\* count, which is the number of rows uploaded, whatever the fallbacks.
C5_OneSuccessSummary ==
    /\ Len(Successes) <= 1
    /\ Successes # <<>> =>
        /\ AllUploaded
        /\ uploaded = chunks
        /\ \A k \in 1..Len(uploaded) :
              \E j \in 1..Len(attempts) :
                  attempts[j].ok /\ attempts[j].rows = uploaded[k]
        /\ Successes[1].records = df.rows
        /\ Successes[1].inserted = SumSizes(uploaded)
        /\ Successes[1].inserted = df.rows
    /\ (AllUploaded /\ pc \in {"returned", "idle"}) => Len(Successes) = 1

\* a three-chunk file whose chunks all took the fallback has its summary
C5_Witness ==
    /\ pc = "returned"
    /\ Len(Successes) = 1
    /\ Len(uploaded) = 3
    /\ \A k \in 1..Len(attempts) : attempts[k].ok <=> attempts[k].op = "create_table"
    /\ Successes[1].inserted = 3 * CHUNK_SIZE

\* C6: while chunk j is being uploaded exactly j-1 delays have happened, each
\* after an upload that returned; a file uploaded in k chunks has had k-1
\* delays when it is through and never more, so none follows the last chunk
\* and none happens for a file of one chunk; 250,000 rows give 3 chunks and
\* 2 delays.
C6_InterChunkDelays ==
    HasFrame =>
    /\ chunkDelays <= ExpectedChunks - 1
    /\ chunkDelays <= Len(uploaded)
    /\ pc \in {"get_table", "append", "create_table"} =>
          /\ chunkDelays = Len(chunks) - 1
          /\ Len(uploaded) = Len(chunks) - 1
    /\ pc = "chunk_sleep" => chunkDelays = Len(uploaded) - 1
    /\ pc = "slice" => chunkDelays = Len(uploaded)
    /\ Completed => chunkDelays = Len(chunks) - 1
    /\ df.rows <= CHUNK_SIZE => chunkDelays = 0
    /\ (Completed /\ df.rows = 2 * CHUNK_SIZE + CHUNK_SIZE \div 2) =>
          Len(chunks) = 3 /\ chunkDelays = 2

\* 250,000 rows are through, in 3 chunks with 2 delays
C6_Witness ==
    /\ Completed
    /\ df.rows = 2 * CHUNK_SIZE + CHUNK_SIZE \div 2
    /\ Len(uploaded) = 3
    /\ chunkDelays = 2

\* C7: main hands the files of a directory to push_to_celonis in listing
\* order, one at a time: a call starts only when every earlier call has
\* ended (in success, skip or failure); while file j is in hand exactly j-1
\* inter-file delays have happened, and n-1 when main ends, so one between
\* consecutive files, however the earlier one ended, and none after the last.
C7_OneFileAtATime ==
    (target = "dir" /\ files # <<>>) =>
    /\ Len(processed) <= Len(files)
    /\ processed = SubSeq(files, 1, Len(processed))
    /\ fileDelays <= Len(files) - 1
    /\ mainPc = "push" =>
          /\ Len(outcomes) = Len(processed) - 1
          /\ fileDelays = Len(processed) - 1
          /\ file = files[Len(processed)]
          /\ fi = Len(processed) - 1
    /\ mainPc # "push" =>
          /\ pc = "idle"
          /\ Len(outcomes) = Len(processed)
    /\ mainPc = "file_sleep" => fileDelays = Len(processed) - 1
    /\ mainPc = "call" => fileDelays = Len(processed)
    /\ mainPc = "done" =>
          /\ processed = files
          /\ fileDelays = Len(files) - 1

\* a directory of two files is through: the first was abandoned, the second
\* uploaded, one delay between them
C7_Witness ==
    /\ target = "dir"
    /\ mainPc = "done"
    /\ Len(files) = 2
    /\ outcomes = <<"abandoned", "success">>
    /\ fileDelays = 1

\* C8: when read_file yields no frame (unsupported extension, or the reader
\* raised) the call returns at once: no platform call, no upload attempt, no
\* SUCCESS line; the batch goes on to its other files.
C8_UnreadableFileSkipped ==
    /\ (pc \in {"returned", "idle"} /\ mainPc # "validate" /\ ~HasFrame) =>
          /\ ~touched
          /\ attempts = <<>>
          /\ uploaded = <<>>
          /\ Successes = <<>>
    /\ (pc \notin {"read", "idle"}) => (HasFrame \/ pc = "returned")
    /\ BatchRunsThrough

\* the first file of a directory could not be read, the second was uploaded
C8_Witness ==
    /\ target = "dir"
    /\ mainPc = "done"
    /\ outcomes = <<"skipped", "success">>

\* the statement built from the schema of the file in hand
FreshStatement == CreateTableSql(file.stem, df)

Named == SelectSeq(transformations, LAMBDA t : t.name = TRANS_NAME)

\* provisioning ran through all its steps for the file in hand
Provisioned ==
    /\ pc \in Ingesting \cup {"ingest", "returned"}
    /\ create_table_sql # NoSql
    /\ provFailed = NONE

\* C9: when provisioning ran through, the job holds one transformation of
\* the fixed name and its statement is the one built from the schema of the
\* file in hand, whatever was there before; execute is called only with that
\* transformation in place; so a run that found the same statement leaves
\* the statement text it found.
C9_StatementReplaced ==
    /\ (Provisioned \/ pc = "execute") =>
          Named = <<[name |-> TRANS_NAME, statement |-> FreshStatement]>>
    /\ (Provisioned /\ found # NoTransformation
            /\ found.statement = FreshStatement) =>
          FindTransformation(transformations).statement = found.statement
    /\ pc = "create_transformation" => Named = <<>>

\* a second run with an unchanged schema found the statement of the first
\* and left the same text
C9_Witness ==
    /\ Provisioned
    /\ Len(processed) = 2
    /\ found.name = TRANS_NAME
    /\ found.statement = FreshStatement
    /\ Named = <<found>>

\* the required values that neither the command line nor the environment gives
Unset == {p \in Range(Params) : ~Truthy(args[p]) /\ ~Truthy(environ[p])}

\* C10: when a required value is missing after resolution, main stops after
\* one error line that names every missing value: no connection attempt, no
\* file read or pushed.
C10_MissingConfigHalts ==
    (mainPc # "validate" /\ Unset # {}) =>
        /\ mainPc = "done"
        /\ connects = 0
        /\ target = NONE
        /\ processed = <<>>
        /\ pc = "idle"
        /\ ~touched
        /\ Len(mainLog) = 1
        /\ mainLog[1].kind = "Missing required configuration"
        /\ Range(mainLog[1].params) = Unset
        /\ Len(mainLog[1].params) = Cardinality(Unset)

\* pool_id and api_key are both missing and both named in the one line
C10_Witness ==
    /\ mainPc = "done"
    /\ Unset = {"api_key", "pool_id"}
    /\ mainLog = <<[kind |-> "Missing required configuration",
                    params |-> <<"api_key", "pool_id">>]>>

====
